---- MODULE Spec2Model ----
(***************************************************************************)
(* PondCDRSuite, cdr_notify: the scan / dedup / dispatch / persist         *)
(* pipeline of utils.py over the sqlite store of database.py, with the     *)
(* chat channel of telegram_sender.py and the mail channel of              *)
(* email_sender.py.                                                        *)
(*                                                                         *)
(* Bytes are sequences of one-character strings.  A digest is modelled as  *)
(* collision free: it is the digested byte string behind a tag.            *)
(***************************************************************************)
EXTENDS Integers, Sequences, FiniteSets, TLC

VARIABLES
    folder,       \* the watched folder: file name -> content, or Missing
    store,        \* table cdr_files: the rows, in insertion (id) order
    EMAIL_SEND,   \* config["EMAIL_SEND"] is "true"
    TELEGRAM_SEND,\* config["TELEGRAM_SEND"] is "true"
    pc,           \* "idle" between scans, "processing" inside the loop over
                  \* new_files, "crashed" when an exception left the loop
    new_files,    \* the rest of the list the loop walks (full paths)
    cur,          \* per file name: what the latest scan did with it
    prev,         \* per file name: what the scan before the latest did with it
    touchedCur,   \* names written or removed since the latest scan began
    touchedPrev,  \* names written or removed during the scan before it
    lastSend,     \* the channel calls of the latest send_notifications
    scans,        \* number of scans begun
    writes,       \* number of writes to the folder by other processes
    sendCall,     \* the latest direct call of a sender: its inputs and what it did
    dbCall,       \* the latest direct call of database.insert_file
    utilCall,     \* the latest direct call of get_files or calculate_hash
    settings,     \* what the configuration holds of the folder and the credentials
    alertCall     \* the run of the send_alert command: its inputs and what it did

vars == <<folder, store, EMAIL_SEND, TELEGRAM_SEND, pc, new_files, cur, prev,
          touchedCur, touchedPrev, lastSend, scans, writes, sendCall, dbCall,
          utilCall, settings, alertCall>>

----------------------------------------------------------------------------
(* Bounds of the model *)

\* scans begun in one behaviour of SpecOne
MaxScans == 3

\* scans begun in one behaviour of Spec
MaxScansBoth == 2

\* scans begun in one behaviour of SpecPass
MaxScansPass == 2

\* writes to the folder by other processes in one behaviour
MaxWrites == 1

\* outcomes of the remote chat API that are on offer to one send
MaxOutcomes == 4

----------------------------------------------------------------------------
(* Bytes, names, paths *)

None == <<>>

Missing == <<"?">>

\* the content of a regular file that open() cannot read
Unreadable == <<"!">>

\* a subdirectory of the folder
Directory == <<"/">>

\* a symbolic link to a regular file of that content, to a directory
\* (Directory), or to nothing (Missing)
LinkTo(target) == <<"@">> \o target

IsLink(entry) == entry # <<>> /\ Head(entry) = "@"

\* what a call that follows symbolic links finds behind an entry
Resolve(entry) == IF IsLink(entry) THEN Tail(entry) ELSE entry

\* os.path.isfile: an existing regular file, symbolic links followed
isfile(entry) == Resolve(entry) \notin {Missing, Directory}

CharCode(c) ==
    CASE c = "." -> 46
      [] c = "/" -> 47
      [] c = "a" -> 97
      [] c = "b" -> 98
      [] c = "c" -> 99
      [] c = "d" -> 100
      [] c = "e" -> 101
      [] c = "m" -> 109
      [] c = "z" -> 122
      [] OTHER -> 63

\* file names in the folder; "a" + "bc" and "ab" + "c" are the same bytes
Names == { <<"a">>, <<"a", "b">> }

Contents == { <<"c">>, <<"b", "c">> }

CDR_FOLDER == <<"d">>

\* os.path.join(cdr_folder, name)
JoinPath(dir, name) == dir \o <<"/">> \o name

RECURSIVE get_filename(_)
\* os.path.basename: what follows the last "/"
get_filename(full_path) ==
    IF \E i \in 1..Len(full_path) : full_path[i] = "/"
    THEN get_filename(Tail(full_path))
    ELSE full_path

RECURSIVE StrLess(_, _)
\* Python's str < str: lexicographic by code point, a proper prefix is smaller
StrLess(s, t) ==
    IF t = <<>> THEN FALSE
    ELSE IF s = <<>> THEN TRUE
    ELSE IF CharCode(Head(s)) # CharCode(Head(t))
         THEN CharCode(Head(s)) < CharCode(Head(t))
         ELSE StrLess(Tail(s), Tail(t))

RECURSIVE InsertSorted(_, _)
InsertSorted(x, s) ==
    IF s = <<>> THEN <<x>>
    ELSE IF StrLess(Head(s), x) THEN <<Head(s)>> \o InsertSorted(x, Tail(s))
    ELSE <<x>> \o s

RECURSIVE SortPaths(_)
\* list.sort() of a list of strings
SortPaths(s) ==
    IF s = <<>> THEN <<>> ELSE InsertSorted(Head(s), SortPaths(Tail(s)))

SeqRange(s) == { s[i] : i \in 1..Len(s) }

\* the orders in which os.listdir may return a set of names
Listings(S) ==
    { s \in [1..Cardinality(S) -> S] : SeqRange(s) = S }

\* the file behind a full path, as open() finds it
FileAt(dir, full_path) == Resolve(dir[get_filename(full_path)])

----------------------------------------------------------------------------
(* utils.get_files, utils.calculate_hash *)

RECURSIVE FilterListing(_, _)
\* the loop of get_files: skip dot names, keep regular files
FilterListing(dir, listing) ==
    IF listing = <<>> THEN <<>>
    ELSE LET name == Head(listing)
             rest == FilterListing(dir, Tail(listing))
         IN IF Head(name) = "." THEN rest
            ELSE IF isfile(dir[name])
                 THEN <<JoinPath(CDR_FOLDER, name)>> \o rest
                 ELSE rest

\* a get_files that returns the files in the order of os.listdir
get_files_Unsorted(dir, listing) == FilterListing(dir, listing)

get_files(dir, listing) == SortPaths(FilterListing(dir, listing))

\* hashlib.sha256(...).hexdigest(), taken as collision free
sha256(bytes) == <<"#">> \o bytes

\* a calculate_hash that digests the filename alone when the file cannot be
\* read
calculate_hash_NameOnly(dir, full_path) ==
    IF FileAt(dir, full_path) \in {Missing, Unreadable, Directory}
    THEN sha256(get_filename(full_path))
    ELSE sha256(get_filename(full_path) \o FileAt(dir, full_path))

\* a calculate_hash that digests the filename alone
calculate_hash_NameDigest(dir, full_path) ==
    IF FileAt(dir, full_path) \in {Missing, Unreadable, Directory}
    THEN None
    ELSE sha256(get_filename(full_path))

\* a calculate_hash that digests the content alone
calculate_hash_ContentDigest(dir, full_path) ==
    IF FileAt(dir, full_path) \in {Missing, Unreadable, Directory}
    THEN None
    ELSE sha256(FileAt(dir, full_path))

\* a calculate_hash that digests the full path in place of the base filename
calculate_hash_FullPath(dir, full_path) ==
    IF FileAt(dir, full_path) \in {Missing, Unreadable, Directory}
    THEN None
    ELSE sha256(full_path \o FileAt(dir, full_path))

\* the digest of filename bytes followed by content bytes; None if open() or
\* read() raises
calculate_hash(dir, full_path) ==
    IF FileAt(dir, full_path) \in {Missing, Unreadable, Directory}
    THEN None
    ELSE sha256(get_filename(full_path) \o FileAt(dir, full_path))

----------------------------------------------------------------------------
(* database.py: table cdr_files, filename TEXT UNIQUE NOT NULL *)

Row(filename, file_hash, status, email_sent, telegram_sent) ==
    [filename |-> filename, file_hash |-> file_hash, status |-> status,
     email_sent |-> email_sent, telegram_sent |-> telegram_sent]

\* the schema's only uniqueness constraint: column filename
init_db_unique(st, row) ==
    \A i \in 1..Len(st) : st[i].filename # row.filename

\* an insert_file that replaces the row of a taken filename (INSERT OR REPLACE)
insert_file_Replace(st, db_ok, filename, file_hash, status, email_sent, telegram_sent) ==
    LET row == Row(filename, file_hash, status, email_sent, telegram_sent)
        Others(r) == r.filename # filename
    IN IF ~db_ok
       THEN [store |-> st, ret |-> FALSE, err |-> "OperationalError"]
       ELSE [store |-> Append(SelectSeq(st, Others), row), ret |-> TRUE,
             err |-> "none"]

\* an insert_file whose failed statement leaves its row behind
insert_file_NoRollback(st, db_ok, filename, file_hash, status, email_sent, telegram_sent) ==
    LET row == Row(filename, file_hash, status, email_sent, telegram_sent)
    IN IF ~db_ok
       THEN [store |-> Append(st, row), ret |-> FALSE, err |-> "OperationalError"]
       ELSE IF ~init_db_unique(st, row)
            THEN [store |-> st, ret |-> FALSE, err |-> "IntegrityError"]
            ELSE [store |-> Append(st, row), ret |-> TRUE, err |-> "none"]

\* A plain INSERT. db_ok = FALSE is the storage being unavailable
\* (sqlite3.OperationalError); a taken filename is sqlite3.IntegrityError.
\* Both are sqlite3.Error: logged, and the function returns False.
insert_file(st, db_ok, filename, file_hash, status, email_sent, telegram_sent) ==
    LET row == Row(filename, file_hash, status, email_sent, telegram_sent)
    IN IF ~db_ok
       THEN [store |-> st, ret |-> FALSE, err |-> "OperationalError"]
       ELSE IF ~init_db_unique(st, row)
            THEN [store |-> st, ret |-> FALSE, err |-> "IntegrityError"]
            ELSE [store |-> Append(st, row), ret |-> TRUE, err |-> "none"]

\* cursor.fetchone(): the first row of the result, or None
fetchone(rows) == IF rows = <<>> THEN <<>> ELSE <<Head(rows)>>

\* SELECT by filename; any exception is logged and None is returned
get_file_by_filename(st, db_ok, filename) ==
    IF ~db_ok THEN <<>>
    ELSE LET ByName(r) == r.filename = filename IN fetchone(SelectSeq(st, ByName))

\* SELECT by file_hash; a storage error is raised to the caller
get_file_by_hash(st, db_ok, file_hash) ==
    IF ~db_ok THEN [raised |-> TRUE, rows |-> <<>>]
    ELSE LET ByHash(r) == r.file_hash = file_hash
         IN [raised |-> FALSE, rows |-> fetchone(SelectSeq(st, ByHash))]

----------------------------------------------------------------------------
(* utils.is_known_file, utils.insert_file_record *)

\* what is_known_file does, step by step: "nohash", "error", "hit" or "miss"
LookupOutcome(dir, st, db_ok, full_path) ==
    LET file_hash == calculate_hash(dir, full_path)
    IN IF file_hash = None THEN "nohash"
       ELSE LET got == get_file_by_hash(st, db_ok, file_hash)
            IN IF got.raised THEN "error"
               ELSE IF got.rows # <<>> THEN "hit" ELSE "miss"

\* an is_known_file that answers a failed read with True
is_known_file_ErrorIsKnown(dir, st, db_ok, full_path) ==
    LookupOutcome(dir, st, db_ok, full_path) \in {"hit", "error"}

\* True only for a hit: no hash and a failed read both give False
is_known_file(dir, st, db_ok, full_path) ==
    LookupOutcome(dir, st, db_ok, full_path) = "hit"

\* an insert_file_record that stores SENT whatever status it is given
insert_file_record_StoresSent(st, db_ok, full_path, file_hash, status, email_sent, telegram_sent) ==
    LET ins == insert_file(st, db_ok, get_filename(full_path), file_hash, "SENT",
                           email_sent, telegram_sent)
    IN [store |-> ins.store, ret |-> ins.ret, err |-> ins.err, raised |-> FALSE]

\* the result of database.insert_file; an exception would be logged and
\* turned into False, so nothing is ever raised to the caller
insert_file_record(st, db_ok, full_path, file_hash, status, email_sent, telegram_sent) ==
    LET ins == insert_file(st, db_ok, get_filename(full_path), file_hash, status,
                           email_sent, telegram_sent)
    IN [store |-> ins.store, ret |-> ins.ret, err |-> ins.err, raised |-> FALSE]

----------------------------------------------------------------------------
(* utils.retry and the two senders *)

max_attempts == 3

backoff_base == 2

RECURSIVE Pow(_, _)
Pow(b, e) == IF e = 0 THEN 1 ELSE b * Pow(b, e - 1)

\* outcomes of one call of the remote API
ApiOutcomes == {"ok", "RequestException", "Exception"}

\* a send body without its last except clause: an exception that is not a
\* RequestException leaves the body as it is
TelegramSendOnce_Propagate(enabled, api) ==
    IF ~enabled THEN [kind |-> "True", msg |-> ""]
    ELSE IF api = "ok" THEN [kind |-> "True", msg |-> ""]
    ELSE IF api = "RequestException"
         THEN [kind |-> "NotificationError", msg |-> "Telegram sending failed"]
         ELSE [kind |-> "Exception", msg |-> ""]

\* the body of TelegramSender.send, called once: True, or NotificationError
\* for a transport error and for every other exception alike
TelegramSendOnce(enabled, api) ==
    IF ~enabled THEN [kind |-> "True", msg |-> ""]
    ELSE IF api = "ok" THEN [kind |-> "True", msg |-> ""]
    ELSE IF api = "RequestException"
         THEN [kind |-> "NotificationError", msg |-> "Telegram sending failed"]
         ELSE [kind |-> "NotificationError",
               msg |-> "Unexpected error sending Telegram"]

RECURSIVE RetryLoop(_, _, _, _, _)
\* the for loop of retry.wrapper from `attempt` on; calls[i] is what the i-th
\* call of func does.  After the loop: raise last_exception.
RetryLoop(attempt, max, base, calls, sleeps) ==
    IF attempt > max
    THEN [kind |-> "NotificationError", msg |-> calls[max].msg,
          attempts |-> max, sleeps |-> sleeps]
    ELSE IF calls[attempt].kind = "True"
         THEN [kind |-> "True", msg |-> "", attempts |-> attempt, sleeps |-> sleeps]
         ELSE IF calls[attempt].kind = "NotificationError"
              THEN IF attempt < max
                   THEN RetryLoop(attempt + 1, max, base, calls,
                                  Append(sleeps, Pow(base, attempt)))
                   ELSE RetryLoop(attempt + 1, max, base, calls, sleeps)
              ELSE [kind |-> calls[attempt].kind, msg |-> calls[attempt].msg,
                    attempts |-> attempt, sleeps |-> sleeps]

\* a retry whose loop runs one attempt too far
retry_OneMore(max, base, calls) == RetryLoop(1, max + 1, base, calls, <<>>)

\* a retry that uses up its attempts and sleeps after a success
retry_KeepsGoing(max, base, calls) ==
    LET r == RetryLoop(1, max, base, calls, <<>>)
    IN IF r.kind = "True"
       THEN [r EXCEPT !.attempts = max,
                      !.sleeps = [k \in 1..(max - 1) |-> Pow(base, k)]]
       ELSE r

\* a retry whose delay is backoff_base ** (attempt + 1)
retry_BackoffFromFour(max, base, calls) ==
    LET r == RetryLoop(1, max, base, calls, <<>>)
    IN [r EXCEPT !.sleeps = [k \in DOMAIN r.sleeps |-> Pow(base, k + 1)]]

\* a retry whose delay is backoff_base ** (attempt - 1)
retry_BackoffFromOne(max, base, calls) ==
    LET r == RetryLoop(1, max, base, calls, <<>>)
    IN [r EXCEPT !.sleeps = [k \in DOMAIN r.sleeps |-> Pow(base, k - 1)]]

retry(max, base, calls) == RetryLoop(1, max, base, calls, <<>>)

\* TelegramSender.send under @utils.retry(max_attempts=3)
telegram_send(enabled, apis) ==
    LET calls == [i \in DOMAIN apis |-> TelegramSendOnce(enabled, apis[i])]
        r == retry(max_attempts, backoff_base, calls)
    IN [kind |-> r.kind, msg |-> r.msg, sleeps |-> r.sleeps,
        attempts |-> IF enabled THEN r.attempts ELSE 0]

\* email_sender.send_email: one attempt; every exception is logged and
\* turned into False
send_email(api) ==
    IF api = "ok" THEN [kind |-> "True", attempts |-> 1]
    ELSE [kind |-> "False", attempts |-> 1]

----------------------------------------------------------------------------
(* utils.send_notifications, the status of utils.process_file *)

MailOutcomes == {"ok", "error"}

\* send_notifications without its two else branches: a disabled channel
\* keeps the initial False
send_notifications_DisabledFalse(email_on, telegram_on, mail_api, telegram_apis) ==
    LET mail == send_email(mail_api)
        tg   == telegram_send(telegram_on, telegram_apis)
        email_sent    == email_on /\ mail.kind = "True"
        telegram_sent == telegram_on /\ tg.kind = "True"
    IN [email_sent |-> email_sent, telegram_sent |-> telegram_sent,
        errors |-> IF telegram_on /\ tg.kind = "NotificationError"
                   THEN <<"Telegram: " \o tg.msg>> ELSE <<>>,
        mail_attempts |-> IF email_on THEN mail.attempts ELSE 0,
        tg_attempts |-> IF telegram_on THEN tg.attempts ELSE 0,
        tg_sleeps |-> IF telegram_on THEN tg.sleeps ELSE <<>>,
        raised |-> IF telegram_on /\ tg.kind \notin {"True", "NotificationError"}
                   THEN tg.kind ELSE "none"]

\* send_notifications that calls the mail sender whatever EMAIL_SEND says
send_notifications_AlwaysMail(email_on, telegram_on, mail_api, telegram_apis) ==
    LET mail == send_email(mail_api)
        tg   == telegram_send(telegram_on, telegram_apis)
    IN [email_sent |-> mail.kind = "True",
        telegram_sent |-> IF telegram_on THEN tg.kind = "True" ELSE TRUE,
        errors |-> IF telegram_on /\ tg.kind = "NotificationError"
                   THEN <<"Telegram: " \o tg.msg>> ELSE <<>>,
        mail_attempts |-> mail.attempts,
        tg_attempts |-> IF telegram_on THEN tg.attempts ELSE 0,
        tg_sleeps |-> IF telegram_on THEN tg.sleeps ELSE <<>>,
        raised |-> IF telegram_on /\ tg.kind \notin {"True", "NotificationError"}
                   THEN tg.kind ELSE "none"]

\* send_notifications without the try / except around the Telegram send: the
\* channel error of an exhausted send leaves the function
send_notifications_NoCatch(email_on, telegram_on, mail_api, telegram_apis) ==
    LET mail == send_email(mail_api)
        tg   == telegram_send(telegram_on, telegram_apis)
    IN [email_sent |-> IF email_on THEN mail.kind = "True" ELSE TRUE,
        telegram_sent |-> IF telegram_on THEN tg.kind = "True" ELSE TRUE,
        errors |-> <<>>,
        mail_attempts |-> IF email_on THEN mail.attempts ELSE 0,
        tg_attempts |-> IF telegram_on THEN tg.attempts ELSE 0,
        tg_sleeps |-> IF telegram_on THEN tg.sleeps ELSE <<>>,
        raised |-> IF telegram_on /\ tg.kind # "True" THEN tg.kind ELSE "none"]

\* send_notifications whose mail flag is true whatever send_email returned
send_notifications_MailFlagTrue(email_on, telegram_on, mail_api, telegram_apis) ==
    LET mail == send_email(mail_api)
        tg   == telegram_send(telegram_on, telegram_apis)
    IN [email_sent |-> TRUE,
        telegram_sent |-> IF telegram_on THEN tg.kind = "True" ELSE TRUE,
        errors |-> IF telegram_on /\ tg.kind = "NotificationError"
                   THEN <<"Telegram: " \o tg.msg>> ELSE <<>>,
        mail_attempts |-> IF email_on THEN mail.attempts ELSE 0,
        tg_attempts |-> IF telegram_on THEN tg.attempts ELSE 0,
        tg_sleeps |-> IF telegram_on THEN tg.sleeps ELSE <<>>,
        raised |-> IF telegram_on /\ tg.kind \notin {"True", "NotificationError"}
                   THEN tg.kind ELSE "none"]

\* email first, then Telegram, each only if enabled; a disabled channel
\* counts as sent; only NotificationError is caught and collected, any other
\* exception of a sender leaves the function (raised)
send_notifications(email_on, telegram_on, mail_api, telegram_apis) ==
    LET mail == send_email(mail_api)
        tg   == telegram_send(telegram_on, telegram_apis)
        email_sent    == IF email_on THEN mail.kind = "True" ELSE TRUE
        telegram_sent == IF telegram_on THEN tg.kind = "True" ELSE TRUE
        errors == IF telegram_on /\ tg.kind = "NotificationError"
                  THEN <<"Telegram: " \o tg.msg>> ELSE <<>>
    IN [email_sent |-> email_sent, telegram_sent |-> telegram_sent,
        errors |-> errors,
        mail_attempts |-> IF email_on THEN mail.attempts ELSE 0,
        tg_attempts |-> IF telegram_on THEN tg.attempts ELSE 0,
        tg_sleeps |-> IF telegram_on THEN tg.sleeps ELSE <<>>,
        raised |-> IF telegram_on /\ tg.kind \notin {"True", "NotificationError"}
                   THEN tg.kind ELSE "none"]

\* the mail API accepted the one attempt an enabled mail channel makes
MailAttemptOk(email_on, mail_api) == email_on /\ mail_api = "ok"

\* the chat API accepted one of the attempts an enabled chat channel makes
ChatAttemptOk(telegram_on, telegram_apis) ==
    /\ telegram_on
    /\ \E i \in 1..max_attempts :
           /\ telegram_apis[i] = "ok"
           /\ \A j \in 1..(i - 1) : telegram_apis[j] # "ok"

\* a status that knows no partial success
DetermineStatus_NoPartial(email_sent, telegram_sent) ==
    IF email_sent /\ telegram_sent THEN "SENT" ELSE "FAILED"

\* FileStatus from the two flags
DetermineStatus(email_sent, telegram_sent) ==
    IF email_sent /\ telegram_sent THEN "SENT"
    ELSE IF email_sent \/ telegram_sent THEN "PARTIAL"
    ELSE "FAILED"

\* the last log line process_file writes for a file it dispatched: the line
\* of the status when insert_file_record returned (whatever it returned), the
\* save failure line when it raised
LogLine(raised, status) == IF raised THEN "save_failed" ELSE status

----------------------------------------------------------------------------
(* What a scan did with a file *)

NoRes ==
    [lookup |-> "none", lhash |-> None, proc |-> "none", hash |-> None,
     email_sent |-> FALSE, telegram_sent |-> FALSE, status |-> "none",
     write |-> "none", log |-> "none", mail_ok |-> FALSE, chat_ok |-> FALSE]

NoSend ==
    [name |-> None, mail_attempts |-> 0, tg_attempts |-> 0, tg_sleeps |-> <<>>,
     errors |-> <<>>]

\* the result of the lookup made for a listed file
Looked(dir, st, db_ok, full_path) ==
    [NoRes EXCEPT !.lookup = LookupOutcome(dir, st, db_ok, full_path),
                  !.lhash = calculate_hash(dir, full_path)]

----------------------------------------------------------------------------
(* The state machine *)

\* what the chat API may do over the calls of one send of the pipeline
PipelineApis == [1..max_attempts -> {"ok", "RequestException"}]

NoCall == [op |-> "none"]

\* a configuration that names an existing folder and holds the credentials
\* of both channels
ValidSettings ==
    [CDR_FOLDER |-> "ok", email_creds |-> TRUE, telegram_creds |-> TRUE]

Quiet ==
    /\ pc = "idle"
    /\ new_files = <<>>
    /\ cur = [n \in Names |-> NoRes]
    /\ prev = [n \in Names |-> NoRes]
    /\ touchedCur = {}
    /\ touchedPrev = {}
    /\ lastSend = NoSend
    /\ scans = 0
    /\ writes = 0
    /\ sendCall = NoCall
    /\ dbCall = NoCall
    /\ utilCall = NoCall
    /\ settings = ValidSettings
    /\ alertCall = NoCall

\* a fresh store, any configuration, files under the names of `present`
InitWith(present) ==
    /\ folder \in { f \in [Names -> Contents \cup {Missing, Unreadable}] :
                      \A n \in Names \ present : f[n] = Missing }
    /\ store = <<>>
    /\ EMAIL_SEND \in BOOLEAN
    /\ TELEGRAM_SEND \in BOOLEAN
    /\ Quiet

\* another process writes, rewrites, locks or removes a file of the folder
WriteFileIn(names) ==
    \E n \in names, c \in Contents \cup {Missing, Unreadable} :
        /\ writes < MaxWrites
        /\ folder[n] # c
        /\ folder' = [folder EXCEPT ![n] = c]
        /\ touchedCur' = touchedCur \cup {n}
        /\ writes' = writes + 1
        /\ UNCHANGED <<store, EMAIL_SEND, TELEGRAM_SEND, pc, new_files, cur, prev,
                       touchedPrev, lastSend, scans, sendCall, dbCall,
                       utilCall, settings, alertCall>>

\* get_new_files: list the folder, keep the files is_known_file does not know.
\* `history` says whether the finished scan is remembered in prev.
GetNewFilesWith(history, max_scans) ==
    /\ pc = "idle"
    /\ scans < max_scans
    /\ \E listing \in Listings({n \in Names : folder[n] # Missing}),
          db_ok \in [Names -> BOOLEAN] :
          LET all_files == get_files(folder, listing)
              Unknown(f) == ~is_known_file(folder, store, db_ok[get_filename(f)], f)
              new == SelectSeq(all_files, Unknown)
              listed == { get_filename(f) : f \in SeqRange(all_files) }
          IN /\ new_files' = new
             /\ pc' = IF new = <<>> THEN "idle" ELSE "processing"
             /\ cur' = [n \in Names |->
                          IF n \in listed
                          THEN Looked(folder, store, db_ok[n], JoinPath(CDR_FOLDER, n))
                          ELSE NoRes]
    /\ prev' = IF history THEN cur ELSE prev
    /\ touchedPrev' = IF history THEN touchedCur ELSE touchedPrev
    /\ touchedCur' = {}
    /\ scans' = scans + 1
    /\ UNCHANGED <<folder, store, EMAIL_SEND, TELEGRAM_SEND, lastSend, writes,
                   sendCall, dbCall, utilCall, settings, alertCall>>

\* a loop that never leaves the file it is at
LoopRest_Same(files) == files

\* `for full_path in new_files`: the files left once the loop has handled
\* the first of `files`
LoopRest(files) == Tail(files)

\* process_file for the next file of the loop: hash, send, status, insert,
\* log.  An exception leaving process_file leaves the loop of the run too.
ProcessFileWith(apis) ==
    /\ pc = "processing"
    /\ LET full_path == Head(new_files)
           filename  == get_filename(full_path)
           file_hash == calculate_hash(folder, full_path)
           rest      == LoopRest(new_files)
           goon      == IF rest = <<>> THEN "idle" ELSE "processing"
       IN IF file_hash = None
          THEN /\ cur' = [cur EXCEPT ![filename] =
                            [@ EXCEPT !.proc = "nohash", !.log = "hash_failed"]]
               /\ new_files' = rest
               /\ pc' = goon
               /\ UNCHANGED <<store, lastSend>>
          ELSE \E mail_api \in MailOutcomes, telegram_apis \in apis,
                  db_ok \in BOOLEAN :
                  LET sn == send_notifications(EMAIL_SEND, TELEGRAM_SEND,
                                               mail_api, telegram_apis)
                      status == DetermineStatus(sn.email_sent, sn.telegram_sent)
                      ins == insert_file_record(store, db_ok, full_path, file_hash,
                                 status, sn.email_sent, sn.telegram_sent)
                      sent == [name |-> filename,
                               mail_attempts |-> sn.mail_attempts,
                               tg_attempts |-> sn.tg_attempts,
                               tg_sleeps |-> sn.tg_sleeps,
                               errors |-> sn.errors]
                  IN IF sn.raised # "none"
                     THEN /\ cur' = [cur EXCEPT ![filename] =
                                       [@ EXCEPT !.proc = "raised",
                                                 !.hash = file_hash]]
                          /\ lastSend' = sent
                          /\ pc' = "crashed"
                          /\ UNCHANGED <<store, new_files>>
                     ELSE /\ store' = ins.store
                          /\ cur' = [cur EXCEPT ![filename] =
                                       [@ EXCEPT !.proc = "dispatched",
                                                 !.hash = file_hash,
                                                 !.email_sent = sn.email_sent,
                                                 !.telegram_sent = sn.telegram_sent,
                                                 !.mail_ok = MailAttemptOk(
                                                     EMAIL_SEND, mail_api),
                                                 !.chat_ok = ChatAttemptOk(
                                                     TELEGRAM_SEND, telegram_apis),
                                                 !.status = status,
                                                 !.write = IF ins.ret THEN "ok"
                                                           ELSE ins.err,
                                                 !.log = LogLine(ins.raised, status)]]
                          /\ lastSend' = sent
                          /\ new_files' = rest
                          /\ pc' = goon
    /\ UNCHANGED <<folder, EMAIL_SEND, TELEGRAM_SEND, prev, touchedCur,
                   touchedPrev, scans, writes, sendCall, dbCall,
                   utilCall, settings, alertCall>>

(* Spec: the pipeline over a folder with both names in use; the chat API is
   up or down for the whole of one send; only the latest scan is remembered *)

SteadyApis == { a \in PipelineApis : \A i \in DOMAIN a : a[i] = a[1] }

Init == InitWith(Names)

WriteFile == WriteFileIn(Names)

GetNewFiles == GetNewFilesWith(FALSE, MaxScansBoth)

ProcessFile == ProcessFileWith(SteadyApis)

Next == WriteFile \/ GetNewFiles \/ ProcessFile

Spec == Init /\ [][Next]_vars

(* SpecOne: the pipeline over a folder with one name in use, followed over
   consecutive scans *)

OneName == { <<"a">> }

InitOne == InitWith(OneName)

WriteFileOne == WriteFileIn(OneName)

GetNewFilesOne == GetNewFilesWith(TRUE, MaxScans)

ProcessFileOne == ProcessFileWith(PipelineApis)

NextOne == WriteFileOne \/ GetNewFilesOne \/ ProcessFileOne

SpecOne == InitOne /\ [][NextOne]_vars

(* SpecPass: whole passes over a folder nobody writes to, both names in use,
   followed over consecutive scans; the chat API answers every call of one
   send alike, with any of its outcomes *)

PassApis ==
    { a \in [1..max_attempts -> ApiOutcomes] : \A i \in DOMAIN a : a[i] = a[1] }

InitPass == InitWith(Names)

GetNewFilesPass == GetNewFilesWith(TRUE, MaxScansPass)

ProcessFilePass == ProcessFileWith(PassApis)

NextPass == GetNewFilesPass \/ ProcessFilePass

SpecPass == InitPass /\ [][NextPass]_vars

(* SpecSend: the senders called directly, as test_senders.py calls them *)

InitSend ==
    /\ folder = [n \in Names |-> Missing]
    /\ store = <<>>
    /\ EMAIL_SEND = TRUE
    /\ TELEGRAM_SEND \in BOOLEAN
    /\ Quiet

SendTelegram ==
    /\ \E apis \in [1..MaxOutcomes -> ApiOutcomes] :
          sendCall' = [op |-> "telegram", enabled |-> TELEGRAM_SEND, apis |-> apis,
                       out |-> telegram_send(TELEGRAM_SEND, apis)]
    /\ UNCHANGED <<folder, store, EMAIL_SEND, TELEGRAM_SEND, pc, new_files, cur,
                   prev, touchedCur, touchedPrev, lastSend, scans, writes, dbCall,
                   utilCall, settings, alertCall>>

\* send_email called once, the mail API answering apis[1] to its only attempt
SendEmail ==
    /\ \E apis \in [1..MaxOutcomes -> MailOutcomes] :
          LET r == send_email(apis[1])
          IN sendCall' = [op |-> "email", enabled |-> TRUE, apis |-> apis,
                          out |-> [kind |-> r.kind, msg |-> "", sleeps |-> <<>>,
                                   attempts |-> r.attempts]]
    /\ UNCHANGED <<folder, store, EMAIL_SEND, TELEGRAM_SEND, pc, new_files, cur,
                   prev, touchedCur, touchedPrev, lastSend, scans, writes, dbCall,
                   utilCall, settings, alertCall>>

NextSend == SendTelegram \/ SendEmail

SpecSend == InitSend /\ [][NextSend]_vars

(* SpecDb: database.insert_file called directly, as test_database.py calls it *)

DbHashes == { sha256(n \o c) : n \in Names, c \in Contents }

InitDb ==
    /\ folder = [n \in Names |-> Missing]
    /\ store = <<>>
    /\ EMAIL_SEND = FALSE
    /\ TELEGRAM_SEND = FALSE
    /\ Quiet

DbInsert ==
    /\ \E filename \in Names, file_hash \in DbHashes,
          email_sent \in BOOLEAN, telegram_sent \in BOOLEAN, db_ok \in BOOLEAN :
          LET ins == insert_file(store, db_ok, filename, file_hash,
                                 DetermineStatus(email_sent, telegram_sent),
                                 email_sent, telegram_sent)
          IN /\ store' = ins.store
             /\ dbCall' = [op |-> "insert_file", before |-> store, db_ok |-> db_ok,
                           filename |-> filename, file_hash |-> file_hash,
                           email_sent |-> email_sent,
                           telegram_sent |-> telegram_sent, ret |-> ins.ret]
    /\ UNCHANGED <<folder, EMAIL_SEND, TELEGRAM_SEND, pc, new_files, cur, prev,
                   touchedCur, touchedPrev, lastSend, scans, writes, sendCall,
                   utilCall, settings, alertCall>>

NextDb == DbInsert

SpecDb == InitDb /\ [][NextDb]_vars

----------------------------------------------------------------------------
(* Properties *)

Dispatched(r) == r.proc = "dispatched"

\* the store answered every call made for the file in that scan
StoreUp(r) == r.lookup # "error" /\ r.write # "OperationalError"

\* not written or removed since the scan before the latest began
Untouched(n) == n \notin (touchedCur \cup touchedPrev)

Rows == SeqRange(store)

BothFailed(r) == Dispatched(r) /\ ~r.email_sent /\ ~r.telegram_sent

\* C1: with both channels enabled and every attempt on both failing, the file's
\* processing still writes a record FAILED / false / false for its fingerprint
\* (the store being available), and the next scan of the unchanged folder does
\* not dispatch the file again.
C1_FailedIsRecorded ==
    \A n \in Names :
        (EMAIL_SEND /\ TELEGRAM_SEND) =>
            /\ (BothFailed(cur[n]) /\ StoreUp(cur[n])) =>
                   \E r \in Rows : /\ r.file_hash = cur[n].hash
                                   /\ r.status = "FAILED"
                                   /\ ~r.email_sent /\ ~r.telegram_sent
            /\ (BothFailed(prev[n]) /\ StoreUp(prev[n]) /\ StoreUp(cur[n])
                  /\ Untouched(n)) => ~Dispatched(cur[n])

\* C2: a second scan pass over an unchanged folder, the store available in
\* both passes, dispatches nothing.
C2_IdempotentRescan ==
    \A n \in Names :
        (/\ scans >= 2
         /\ touchedCur \cup touchedPrev = {}
         /\ prev[n].lookup # "none"
         /\ StoreUp(prev[n]) /\ StoreUp(cur[n])) => ~Dispatched(cur[n])

\* C3: a file whose name has a record and whose bytes now differ from the
\* recorded ones is classified as a dedup miss by the scan that looks it up.
C3_NewContentIsMiss ==
    \A n \in Names :
        (/\ cur[n].lookup \in {"hit", "miss"}
         /\ \E r \in Rows : r.filename = n /\ r.file_hash # cur[n].lhash)
        => cur[n].lookup = "miss"

\* C4: the store holds at most one record per fingerprint, and a write whose
\* fingerprint is already stored succeeds and leaves the latest filename and
\* flags under that fingerprint.
C4_UpsertByFingerprint ==
    /\ \A i, j \in 1..Len(store) :
           store[i].file_hash = store[j].file_hash => i = j
    /\ (/\ dbCall.op = "insert_file"
        /\ dbCall.db_ok
        /\ \E r \in SeqRange(dbCall.before) : r.file_hash = dbCall.file_hash)
       => /\ dbCall.ret
          /\ \E r \in Rows : /\ r.file_hash = dbCall.file_hash
                             /\ r.filename = dbCall.filename
                             /\ r.email_sent = dbCall.email_sent
                             /\ r.telegram_sent = dbCall.telegram_sent

\* C5: after a file with an already recorded filename and new content is
\* processed, the store available, a record of the new fingerprint is stored.
C5_NewContentIsRecorded ==
    \A n \in Names :
        (/\ Dispatched(cur[n])
         /\ StoreUp(cur[n])
         /\ \E r \in Rows : r.filename = n /\ r.file_hash # cur[n].hash)
        => \E r \in Rows : r.file_hash = cur[n].hash

OneFailed(r) == Dispatched(r) /\ r.email_sent # r.telegram_sent

\* C6: when exactly one channel fails and the other succeeds or is disabled, a
\* record with the failed flag false and the other true is stored (the store
\* available), and the next scan of the unchanged folder does not reprocess
\* the file.
C6_PartialIsRecorded ==
    \A n \in Names :
        /\ (OneFailed(cur[n]) /\ StoreUp(cur[n])) =>
               \E r \in Rows : /\ r.file_hash = cur[n].hash
                               /\ r.email_sent = cur[n].email_sent
                               /\ r.telegram_sent = cur[n].telegram_sent
        /\ (OneFailed(prev[n]) /\ StoreUp(prev[n]) /\ StoreUp(cur[n])
              /\ Untouched(n)) => ~Dispatched(cur[n])

\* the table of the aggregation, row by row
TableHolds(mail, chat, status) ==
    /\ (mail /\ chat) => status = "SENT"
    /\ (mail /\ ~chat) => status = "PARTIAL"
    /\ (~mail /\ chat) => status = "PARTIAL"
    /\ (~mail /\ ~chat) => status = "FAILED"

\* C7: the status derived for a processed file, and the status of every stored
\* record, is SENT for true/true, PARTIAL for exactly one true, FAILED for
\* false/false.
C7_AggregationTable ==
    /\ \A n \in Names :
           Dispatched(cur[n]) =>
               TableHolds(cur[n].email_sent, cur[n].telegram_sent, cur[n].status)
    /\ \A r \in Rows : TableHolds(r.email_sent, r.telegram_sent, r.status)

C7_Witness ==
    \E n \in Names :
        /\ Dispatched(cur[n])
        /\ cur[n].email_sent /\ ~cur[n].telegram_sent
        /\ cur[n].status = "PARTIAL"
        /\ \E r \in Rows : r.file_hash = cur[n].hash /\ r.status = "PARTIAL"

\* C8 as claimed: with both channels disabled the status derived for a
\* processed file is SKIPPED.
C8_SkippedWhenDisabled ==
    \A n \in Names :
        (~EMAIL_SEND /\ ~TELEGRAM_SEND /\ Dispatched(cur[n]))
        => cur[n].status = "SKIPPED"

\* C8 as amended: with both channels disabled the status derived for a
\* processed file is SENT with both flags true, and SENT is the status of
\* every record written.
C8_SentWhenDisabled ==
    (~EMAIL_SEND /\ ~TELEGRAM_SEND) =>
        /\ \A n \in Names :
               Dispatched(cur[n]) =>
                   /\ cur[n].status = "SENT"
                   /\ cur[n].email_sent /\ cur[n].telegram_sent
                   /\ cur[n].write = "ok" =>
                          \E r \in Rows : /\ r.filename = n
                                          /\ r.file_hash = cur[n].hash
                                          /\ r.status = "SENT"
        /\ \A r \in Rows : r.status = "SENT"

C8_Witness ==
    \E n \in Names :
        /\ ~EMAIL_SEND /\ ~TELEGRAM_SEND
        /\ Dispatched(cur[n])
        /\ cur[n].write = "ok"
        /\ \E r \in Rows : r.file_hash = cur[n].hash /\ r.status = "SENT"

\* exactly one channel is enabled, and its send succeeded
OnlyEnabledSucceeded(r) ==
    /\ EMAIL_SEND # TELEGRAM_SEND
    /\ EMAIL_SEND => r.email_sent
    /\ TELEGRAM_SEND => r.telegram_sent

\* C9: a disabled channel yields true with no send attempt and no sleep; a file
\* whose only enabled channel succeeded has both flags true, is not PARTIAL,
\* and its record, once written, has both flags true.
C9_DisabledIsVacuous ==
    \A n \in Names :
        (Dispatched(cur[n]) /\ lastSend.name = n) =>
            /\ ~EMAIL_SEND => (cur[n].email_sent /\ lastSend.mail_attempts = 0)
            /\ ~TELEGRAM_SEND => /\ cur[n].telegram_sent
                                 /\ lastSend.tg_attempts = 0
                                 /\ lastSend.tg_sleeps = <<>>
            /\ OnlyEnabledSucceeded(cur[n]) =>
                   /\ cur[n].email_sent /\ cur[n].telegram_sent
                   /\ cur[n].status # "PARTIAL"
                   /\ cur[n].write = "ok" =>
                          \E r \in Rows : /\ r.filename = n
                                          /\ r.file_hash = cur[n].hash
                                          /\ r.email_sent /\ r.telegram_sent
                                          /\ r.status = "SENT"

C9_Witness ==
    \E n \in Names :
        /\ ~EMAIL_SEND /\ TELEGRAM_SEND
        /\ Dispatched(cur[n]) /\ lastSend.name = n
        /\ cur[n].telegram_sent
        /\ lastSend.mail_attempts = 0 /\ lastSend.tg_attempts = 2
        /\ cur[n].write = "ok"

\* C10: a send under the retry policy makes at most 3 attempts; if the first 3
\* all fail, the error is raised after the 3rd, with exactly 2 sleeps.
C10_RetryBound ==
    (sendCall.op = "telegram" /\ sendCall.enabled) =>
        /\ sendCall.out.attempts <= 3
        /\ (\A i \in 1..3 : sendCall.apis[i] # "ok") =>
               /\ sendCall.out.kind = "NotificationError"
               /\ sendCall.out.attempts = 3
               /\ Len(sendCall.out.sleeps) = 2

C10_Witness ==
    /\ sendCall.op = "telegram" /\ sendCall.enabled
    /\ \A i \in 1..3 : sendCall.apis[i] # "ok"
    /\ sendCall.apis[4] = "ok"
    /\ sendCall.out.kind = "NotificationError"
    /\ sendCall.out.attempts = 3

ChatOver(apis) ==
    telegram_send(TRUE, [i \in DOMAIN apis |->
                           IF apis[i] = "ok" THEN "ok" ELSE "RequestException"])

\* C12: an enabled mail send is retried like the chat send: the same number of
\* attempts and the same sleeps over the same outcomes, and after 3 failed
\* attempts a channel error is raised to the dispatcher.
C12_MailRetriesLikeChat ==
    sendCall.op = "email" =>
        LET out == sendCall.out
            tg == ChatOver(sendCall.apis)
        IN /\ out.attempts = tg.attempts
           /\ out.sleeps = tg.sleeps
           /\ out.kind = tg.kind
           /\ (\A i \in 1..3 : sendCall.apis[i] # "ok")
              => (out.kind = "NotificationError" /\ out.attempts = 3)

\* the channels of the latest send that were enabled and did not succeed
FailedChannels(r) ==
    (IF EMAIL_SEND /\ ~r.email_sent THEN {"Email"} ELSE {})
        \cup (IF TELEGRAM_SEND /\ ~r.telegram_sent THEN {"Telegram"} ELSE {})

\* C13: within one file's processing the enabled chat channel is attempted
\* whatever the mail channel did, and every failed channel has its own entry
\* in the collected errors.
C13_ChannelIndependence ==
    \A n \in Names :
        (Dispatched(cur[n]) /\ lastSend.name = n) =>
            /\ TELEGRAM_SEND => lastSend.tg_attempts >= 1
            /\ Len(lastSend.errors) = Cardinality(FailedChannels(cur[n]))

\* C14 as claimed: an error inside an enabled chat send that is no transport
\* error fails fast: one attempt, no sleep.
C14_OtherErrorsFailFast ==
    (/\ sendCall.op = "telegram" /\ sendCall.enabled
     /\ sendCall.apis[1] = "Exception")
    => (sendCall.out.attempts = 1 /\ sendCall.out.sleeps = <<>>)

\* C14 as amended: every exception inside an enabled chat send is retried as
\* a transport error is: the send ends as it does over the same run of
\* outcomes with transport errors in their place, and three failures of any
\* kind end in a channel error after 3 attempts and 2 sleeps.
C14_EveryErrorIsRetried ==
    (sendCall.op = "telegram" /\ sendCall.enabled) =>
        LET out == sendCall.out
            tg == ChatOver(sendCall.apis)
        IN /\ out.kind = tg.kind
           /\ out.attempts = tg.attempts
           /\ out.sleeps = tg.sleeps
           /\ (\A i \in 1..3 : sendCall.apis[i] = "Exception")
              => /\ out.kind = "NotificationError"
                 /\ out.attempts = 3
                 /\ out.sleeps = <<2, 4>>

C14_Witness ==
    /\ sendCall.op = "telegram" /\ sendCall.enabled
    /\ \A i \in 1..3 : sendCall.apis[i] = "Exception"
    /\ sendCall.out.kind = "NotificationError"
    /\ sendCall.out.attempts = 3
    /\ sendCall.out.sleeps = <<2, 4>>

\* the file of that name waits in the list the loop walks
Pending(n) == JoinPath(CDR_FOLDER, n) \in SeqRange(new_files)

NoFingerprint(n) == folder[n] \in {Missing, Unreadable}

\* the loop is about to process the file of that name
IsNext(n) ==
    pc = "processing" /\ new_files # <<>> /\ get_filename(Head(new_files)) = n

WriteFailed(r) == r.write \in {"OperationalError", "IntegrityError"}

\* the scan listed the file as new
ListedNew(r) == r.lookup \in {"miss", "error", "nohash"}

\* the pass is over with every file it listed as new processed
PassComplete ==
    /\ pc # "crashed"
    /\ pc = "idle" => \A n \in Names : ListedNew(cur[n]) => cur[n].proc # "none"

\* no other file of the folder has the fingerprint of the file of that name
NoTwin(n) ==
    \A m \in Names \ {n} :
        calculate_hash(folder, JoinPath(CDR_FOLDER, m))
            # calculate_hash(folder, JoinPath(CDR_FOLDER, n))

C18_FailedWriteIsLogged ==
    \A n \in Names :
        Dispatched(cur[n]) =>
            /\ WriteFailed(cur[n]) => cur[n].log = "save_failed"
            /\ cur[n].log \in {"SENT", "PARTIAL", "FAILED"} => cur[n].write = "ok"

\* the scan has fingerprinted and looked up the file
LookedUp(r) == r.lookup # "none"

\* C19 as claimed: no step of a file, its fingerprint and dedup lookup
\* included, begins before the file before it in processing order has been
\* persisted or terminated.
C19_StrictlySequential ==
    \A n, m \in Names :
        (StrLess(n, m) /\ ListedNew(cur[n]) /\ LookedUp(cur[m]))
        => cur[n].proc # "none"

\* C19 as amended: a pass fingerprints and looks up every listed file first;
\* the new files are then processed one after the other in sorted order, a
\* file only when every new file before it has been persisted or terminated,
\* and the files still waiting are the unprocessed new files, in that order.
C19_SequentialAfterLookup ==
    /\ \A n, m \in Names :
           (/\ StrLess(n, m) /\ ListedNew(cur[n]) /\ ListedNew(cur[m])
            /\ cur[m].proc # "none") => cur[n].proc # "none"
    /\ \A n \in Names : Pending(n) <=> (ListedNew(cur[n]) /\ cur[n].proc = "none")
    /\ \A i, j \in 1..Len(new_files) :
           i < j => StrLess(new_files[i], new_files[j])

C19_Witness ==
    \E n, m \in Names :
        /\ StrLess(n, m)
        /\ cur[n].lookup = "miss" /\ cur[m].lookup = "miss"
        /\ Dispatched(cur[n]) /\ cur[n].write = "ok"
        /\ cur[m].proc = "none" /\ Pending(m)

ErrorDetail(r) ==
    IF "error_message" \in DOMAIN r THEN r.error_message ELSE None

RECURSIVE JoinErrors(_)
\* "; ".join(errors)
JoinErrors(errors) ==
    IF errors = <<>> THEN ""
    ELSE IF Len(errors) = 1 THEN Head(errors)
    ELSE Head(errors) \o "; " \o JoinErrors(Tail(errors))

\* C21: when a channel of a processed file exhausted its retries, nothing is
\* raised past the file's processing, and the record written for the file
\* holds the error descriptions of the failed channels, joined.
C21_ErrorsAreRecorded ==
    /\ pc # "crashed"
    /\ \A n \in Names :
           (/\ cur[n].lookup = "miss"
            /\ Dispatched(cur[n]) /\ lastSend.name = n
            /\ lastSend.errors # <<>>
            /\ cur[n].write = "ok")
           => \E r \in Rows : /\ r.file_hash = cur[n].hash
                              /\ ErrorDetail(r) = JoinErrors(lastSend.errors)

----------------------------------------------------------------------------
(* SpecList: utils.get_files called directly on a folder of files,
   subdirectories, symbolic links and dot names, as test_utils.py calls it,
   followed by the filter of get_new_files over an empty store *)

ListNames == { <<"a">>, <<"m">>, <<"z">>, <<".", "a">> }

\* what a name of the folder may be
Entries ==
    { <<"c">>, Missing, Directory,
      LinkTo(<<"c">>), LinkTo(Directory), LinkTo(Missing) }

InitList ==
    /\ folder \in [ListNames -> Entries]
    /\ store = <<>>
    /\ EMAIL_SEND = FALSE
    /\ TELEGRAM_SEND = FALSE
    /\ pc = "idle"
    /\ new_files = <<>>
    /\ cur = [n \in Names |-> NoRes]
    /\ prev = [n \in Names |-> NoRes]
    /\ touchedCur = {}
    /\ touchedPrev = {}
    /\ lastSend = NoSend
    /\ scans = 0
    /\ writes = 0
    /\ sendCall = NoCall
    /\ dbCall = NoCall
    /\ utilCall = NoCall
    /\ settings = ValidSettings
    /\ alertCall = NoCall

\* one call of get_files, os.listdir returning the names in any order; `new`
\* is what get_new_files keeps of the result, `before` the result of the call
\* before this one
GetFiles ==
    /\ \E listing \in Listings({ n \in ListNames : folder[n] # Missing }) :
          LET out == get_files(folder, listing)
              Unknown(f) == ~is_known_file(folder, store, TRUE, f)
          IN utilCall' = [op |-> "get_files", listing |-> listing, out |-> out,
                          new |-> SelectSeq(out, Unknown),
                          before |-> IF utilCall.op = "get_files"
                                     THEN <<utilCall.out>> ELSE <<>>]
    /\ UNCHANGED <<folder, store, EMAIL_SEND, TELEGRAM_SEND, pc, new_files, cur,
                   prev, touchedCur, touchedPrev, lastSend, scans, writes,
                   sendCall, dbCall, settings, alertCall>>

NextList == GetFiles

SpecList == InitList /\ [][NextList]_vars

\* the file names of a list of full paths, in its order
FileNames(paths) == [i \in DOMAIN paths |-> get_filename(paths[i])]

\* the names of the folder that are no dot names and that os.path.isfile
\* accepts
Accepted == { n \in ListNames : Head(n) # "." /\ isfile(folder[n]) }

\* C22: whatever order the directory listing has, the eligible files come in
\* lexicographic order of filename, and with no prior records that is the
\* order they are processed in; a, m and z listed in any order come as a, m,
\* z; a second scan of the unchanged folder gives the identical order.
C22_LexicographicOrder ==
    utilCall.op = "get_files" =>
        LET out == utilCall.out
        IN /\ \A i, j \in DOMAIN out :
                  i < j => StrLess(get_filename(out[i]), get_filename(out[j]))
           /\ SeqRange(FileNames(out)) = Accepted
           /\ utilCall.new = out
           /\ Accepted = { <<"a">>, <<"m">>, <<"z">> }
                  => FileNames(utilCall.new) = << <<"a">>, <<"m">>, <<"z">> >>
           /\ utilCall.before # <<>> => utilCall.before[1] = out

C22_Witness ==
    /\ utilCall.op = "get_files"
    /\ utilCall.listing = << <<"z">>, <<"a">>, <<"m">> >>
    /\ \A n \in { <<"a">>, <<"m">>, <<"z">> } : folder[n] = <<"c">>
    /\ FileNames(utilCall.new) = << <<"a">>, <<"m">>, <<"z">> >>
    /\ utilCall.before # <<>>

\* the names of the folder that are regular files themselves, no symbolic
\* links, and no dot names
RegularVisible ==
    { n \in ListNames :
        Head(n) # "." /\ ~IsLink(folder[n]) /\ folder[n] \notin {Missing, Directory} }

\* C23: the eligible set is exactly the entries that are regular files and
\* whose name starts with no dot; a dot name and a subdirectory next to one
\* regular file give exactly one eligible file.
C23_RegularVisibleOnly ==
    utilCall.op = "get_files" =>
        /\ SeqRange(FileNames(utilCall.out)) = RegularVisible
        /\ Len(utilCall.out) = Cardinality(RegularVisible)

\* C24: a symbolic link of the folder, one to a regular file included, is not
\* in the eligible set, so it is never fingerprinted, dispatched or recorded.
C24_LinksExcluded ==
    utilCall.op = "get_files" =>
        \A n \in ListNames :
            IsLink(folder[n]) =>
                /\ JoinPath(CDR_FOLDER, n) \notin SeqRange(utilCall.out)
                /\ JoinPath(CDR_FOLDER, n) \notin SeqRange(utilCall.new)

----------------------------------------------------------------------------
(* SpecRun: one run of cdr_notify.main from its start: the service is
   constructed from the configuration, then the folder is scanned *)

\* scans begun in one behaviour of SpecRun
MaxScansRun == 2

FolderSettings == {"unset", "nodir", "ok"}

\* utils.validate_config: the folder, then the credentials of each enabled
\* channel
validate_config(s, email_on, telegram_on) ==
    IF s.CDR_FOLDER # "ok" THEN "ConfigError"
    ELSE IF email_on /\ ~s.email_creds THEN "ConfigError"
    ELSE IF telegram_on /\ ~s.telegram_creds THEN "ConfigError"
    ELSE "ok"

\* CDRNotifyService._validate_cdr_folder
validate_cdr_folder(s) ==
    IF s.CDR_FOLDER = "unset" THEN "ConfigError"
    ELSE IF s.CDR_FOLDER = "nodir" THEN "ConfigError"
    ELSE "ok"

\* CDRNotifyService._setup_database: init_db logs an sqlite3.Error and raises
\* it again
setup_database(db_ok) == IF db_ok THEN "ok" ELSE "sqlite3.Error"

\* the constructor of the mail sender: an enabled channel without its
\* credentials is a configuration error
EmailSender_init(s, email_on) ==
    IF email_on /\ ~s.email_creds THEN "ConfigError" ELSE "ok"

\* a constructor of the chat sender that validates nothing
TelegramSender_init_NoCheck(s, telegram_on) == "ok"

\* TelegramSender.__init__: _validate_config if the channel is enabled
TelegramSender_init(s, telegram_on) ==
    IF telegram_on /\ ~s.telegram_creds THEN "ConfigError" ELSE "ok"

\* CDRNotifyService.__init__: the first of its four steps that raises
CDRNotifyService_init(s, email_on, telegram_on, db_ok) ==
    IF validate_cdr_folder(s) # "ok" THEN validate_cdr_folder(s)
    ELSE IF setup_database(db_ok) # "ok" THEN setup_database(db_ok)
    ELSE IF EmailSender_init(s, email_on) # "ok" THEN EmailSender_init(s, email_on)
    ELSE TelegramSender_init(s, telegram_on)

InitRun ==
    /\ folder \in [Names -> Contents \cup {Missing, Unreadable}]
    /\ store = <<>>
    /\ EMAIL_SEND \in BOOLEAN
    /\ TELEGRAM_SEND \in BOOLEAN
    /\ pc = "start"
    /\ new_files = <<>>
    /\ cur = [n \in Names |-> NoRes]
    /\ prev = [n \in Names |-> NoRes]
    /\ touchedCur = {}
    /\ touchedPrev = {}
    /\ lastSend = NoSend
    /\ scans = 0
    /\ writes = 0
    /\ sendCall = NoCall
    /\ dbCall = NoCall
    /\ utilCall = NoCall
    /\ settings \in [CDR_FOLDER : FolderSettings, email_creds : BOOLEAN,
                     telegram_creds : BOOLEAN]
    /\ alertCall = NoCall

\* main up to service.run(): ConfigError ends the run with the configuration
\* error line, any other exception with the unexpected error line; both exit 1
Startup ==
    /\ pc = "start"
    /\ \E db_ok \in BOOLEAN :
          LET r == CDRNotifyService_init(settings, EMAIL_SEND, TELEGRAM_SEND, db_ok)
          IN pc' = IF r = "ok" THEN "idle"
                   ELSE IF r = "ConfigError" THEN "config_error"
                   ELSE "startup_error"
    /\ UNCHANGED <<folder, store, EMAIL_SEND, TELEGRAM_SEND, new_files, cur, prev,
                   touchedCur, touchedPrev, lastSend, scans, writes, sendCall,
                   dbCall, utilCall, settings, alertCall>>

GetNewFilesRun == GetNewFilesWith(FALSE, MaxScansRun)

ProcessFileRun == ProcessFileWith(SteadyApis)

NextRun == Startup \/ GetNewFilesRun \/ ProcessFileRun

SpecRun == InitRun /\ [][NextRun]_vars

(* SpecRunLive: SpecRun with the loop of run() going on: process_file
   returns, since every call it makes returns (the sends are bounded by the
   retry count, the sleeps are finite, the store calls return or raise),
   and the for loop then takes the next file *)

SpecRunLive == SpecRun /\ WF_vars(ProcessFileRun)

\* no file has been listed, fingerprinted, dispatched or recorded
NothingDone ==
    /\ scans = 0
    /\ new_files = <<>>
    /\ store = <<>>
    /\ lastSend = NoSend
    /\ \A n \in Names : cur[n] = NoRes

----------------------------------------------------------------------------
(* SpecHash: utils.calculate_hash called directly on one file after the
   other, as test_utils.py calls it: a file of some name in some directory,
   with some content, modification time and permission bits *)

Dirs == { <<"d">>, <<"e">> }

Mtimes == {1, 2}

\* permission bits as the process meets them: read and write, read only, none
Modes == {"rw", "r", "none"}

\* what open(filepath, "rb").read() gives for a file
ReadBytes(content, mode) == IF mode = "none" THEN Unreadable ELSE content

InitHash ==
    /\ folder = [n \in Names |-> Missing]
    /\ store = <<>>
    /\ EMAIL_SEND = FALSE
    /\ TELEGRAM_SEND = FALSE
    /\ Quiet

\* one call of calculate_hash; `before` is the call before this one
CalculateHash ==
    /\ \E d \in Dirs, name \in Names, content \in Contents, mtime \in Mtimes,
          mode \in Modes :
          LET full_path == JoinPath(d, name)
              dir == [n \in Names |-> IF n = name THEN ReadBytes(content, mode)
                                      ELSE Missing]
          IN utilCall' = [op |-> "calculate_hash", full_path |-> full_path,
                          content |-> content, mtime |-> mtime, mode |-> mode,
                          out |-> calculate_hash(dir, full_path),
                          before |-> IF utilCall.op = "calculate_hash"
                                     THEN <<[utilCall EXCEPT !.before = <<>>]>>
                                     ELSE <<>>]
    /\ UNCHANGED <<folder, store, EMAIL_SEND, TELEGRAM_SEND, pc, new_files, cur,
                   prev, touchedCur, touchedPrev, lastSend, scans, writes,
                   sendCall, dbCall, settings, alertCall>>

NextHash == CalculateHash

SpecHash == InitHash /\ [][NextHash]_vars

\* two calls of calculate_hash have been made, one after the other
TwoHashes == utilCall.op = "calculate_hash" /\ utilCall.before # <<>>

\* the call gave a fingerprint
Fingerprinted(c) == c.out # None

\* C26: for one filename, two different byte contents have different
\* fingerprints.
C26_ContentSensitive ==
    TwoHashes =>
        LET c1 == utilCall.before[1]
            c2 == utilCall
        IN (/\ get_filename(c1.full_path) = get_filename(c2.full_path)
            /\ c1.content # c2.content
            /\ Fingerprinted(c1) /\ Fingerprinted(c2))
           => c1.out # c2.out

C26_Witness ==
    /\ TwoHashes
    /\ get_filename(utilCall.before[1].full_path) = <<"a">>
    /\ get_filename(utilCall.full_path) = <<"a">>
    /\ utilCall.before[1].content = <<"c">>
    /\ utilCall.content = <<"b", "c">>
    /\ Fingerprinted(utilCall.before[1]) /\ Fingerprinted(utilCall)
    /\ utilCall.before[1].out # utilCall.out

\* C27: for one byte content, two different filenames have different
\* fingerprints.
C27_NameSensitive ==
    TwoHashes =>
        LET c1 == utilCall.before[1]
            c2 == utilCall
        IN (/\ get_filename(c1.full_path) # get_filename(c2.full_path)
            /\ c1.content = c2.content
            /\ Fingerprinted(c1) /\ Fingerprinted(c2))
           => c1.out # c2.out

C27_Witness ==
    /\ TwoHashes
    /\ get_filename(utilCall.before[1].full_path) = <<"a">>
    /\ get_filename(utilCall.full_path) = <<"a", "b">>
    /\ utilCall.before[1].content = <<"b", "c">>
    /\ utilCall.content = <<"b", "c">>
    /\ Fingerprinted(utilCall.before[1]) /\ Fingerprinted(utilCall)
    /\ utilCall.before[1].out # utilCall.out

\* C28: the fingerprint is a function of the base filename and the byte
\* content alone: it is the digest of the one followed by the other, and
\* computing it again for the same name and bytes gives the identical value,
\* whatever the directory, the modification time and the permission bits of
\* a file that can be read (a file that cannot be read has no fingerprint).
C28_IdentityStable ==
    utilCall.op = "calculate_hash" =>
        /\ Fingerprinted(utilCall) <=> utilCall.mode # "none"
        /\ Fingerprinted(utilCall) =>
               utilCall.out = sha256(get_filename(utilCall.full_path) \o utilCall.content)
        /\ TwoHashes =>
               LET c1 == utilCall.before[1]
                   c2 == utilCall
               IN (/\ get_filename(c1.full_path) = get_filename(c2.full_path)
                   /\ c1.content = c2.content
                   /\ Fingerprinted(c1) /\ Fingerprinted(c2))
                  => c1.out = c2.out

C28_Witness ==
    /\ TwoHashes
    /\ get_filename(utilCall.before[1].full_path) = get_filename(utilCall.full_path)
    /\ utilCall.before[1].full_path # utilCall.full_path
    /\ utilCall.before[1].content = utilCall.content
    /\ utilCall.before[1].mtime # utilCall.mtime
    /\ utilCall.before[1].mode = "rw" /\ utilCall.mode = "r"
    /\ Fingerprinted(utilCall)
    /\ utilCall.before[1].out = utilCall.out

\* the first attempt of an enabled chat send failed and the second succeeded
FailedThenOk ==
    /\ sendCall.op = "telegram" /\ sendCall.enabled
    /\ sendCall.apis[1] # "ok"
    /\ sendCall.apis[2] = "ok"

Statuses == {"SENT", "PARTIAL", "FAILED"}

\* C30: in every reachable state every stored record agrees with the
\* aggregation table on its own two flags, and every step that changes the
\* store appends one record whose status is the table's result for the flags
\* stored with it, leaving the records stored before as they were.
C30_StoreMatchesTable ==
    /\ [](\A r \in Rows :
             /\ r.status \in Statuses
             /\ TableHolds(r.email_sent, r.telegram_sent, r.status))
    /\ [][store' # store =>
             /\ Len(store') = Len(store) + 1
             /\ SubSeq(store', 1, Len(store)) = store
             /\ LET r == store'[Len(store')]
                IN /\ r.email_sent /\ r.telegram_sent => r.status = "SENT"
                   /\ r.email_sent # r.telegram_sent => r.status = "PARTIAL"
                   /\ ~r.email_sent /\ ~r.telegram_sent => r.status = "FAILED"]_vars

C30_Witness ==
    /\ Len(store) >= 2
    /\ \E r \in Rows : r.status = "FAILED" /\ ~r.email_sent /\ ~r.telegram_sent
    /\ \E r \in Rows : r.status = "PARTIAL" /\ r.email_sent # r.telegram_sent

\* C31: no record holds a flag that is falsely true: a step that writes a
\* record writes mail_sent (chat_sent) true only if that channel is disabled
\* or one of its attempts for that file succeeded in the processing that
\* wrote the record, and the record of a processed file holds the flags its
\* processing arrived at.
C31_NoFalseSentFlag ==
    /\ [](\A n \in Names :
             (Dispatched(cur[n]) /\ cur[n].write = "ok") =>
                 \E r \in Rows :
                     /\ r.filename = n /\ r.file_hash = cur[n].hash
                     /\ r.email_sent = cur[n].email_sent
                     /\ r.telegram_sent = cur[n].telegram_sent
                     /\ r.email_sent => (~EMAIL_SEND \/ cur[n].mail_ok)
                     /\ r.telegram_sent => (~TELEGRAM_SEND \/ cur[n].chat_ok))
    /\ [][\A i \in 1..Len(store') :
             i > Len(store) =>
                 LET r == store'[i]
                 IN /\ r.email_sent => (~EMAIL_SEND \/ cur'[r.filename].mail_ok)
                    /\ r.telegram_sent =>
                           (~TELEGRAM_SEND \/ cur'[r.filename].chat_ok)]_vars

C31_Witness ==
    \E n \in Names :
        /\ EMAIL_SEND /\ TELEGRAM_SEND
        /\ Dispatched(cur[n]) /\ cur[n].write = "ok"
        /\ ~cur[n].mail_ok /\ cur[n].chat_ok
        /\ lastSend.name = n /\ lastSend.tg_attempts = 3
        /\ \E r \in Rows : /\ r.file_hash = cur[n].hash
                           /\ ~r.email_sent /\ r.telegram_sent

\* attempt k of the latest direct send is the first the API accepted
SuccessAt(k) ==
    /\ sendCall.apis[k] = "ok"
    /\ \A j \in 1..(k - 1) : sendCall.apis[j] # "ok"

\* C32: a retry burst stops at its first successful attempt: no attempt and
\* no sleep follows it, whatever the API would have answered afterwards, and
\* the caller receives the success value.
C32_StopsAtFirstSuccess ==
    /\ (sendCall.op = "telegram" /\ sendCall.enabled) =>
           \A k \in 1..max_attempts :
               SuccessAt(k) => /\ sendCall.out.kind = "True"
                               /\ sendCall.out.attempts = k
                               /\ Len(sendCall.out.sleeps) = k - 1
    /\ (sendCall.op = "email" /\ SuccessAt(1)) =>
           /\ sendCall.out.kind = "True"
           /\ sendCall.out.attempts = 1
           /\ sendCall.out.sleeps = <<>>

C32_Witness ==
    /\ sendCall.op = "telegram" /\ sendCall.enabled
    /\ SuccessAt(1)
    /\ sendCall.apis[2] = "RequestException"
    /\ sendCall.apis[3] = "Exception"
    /\ sendCall.out.kind = "True"
    /\ sendCall.out.attempts = 1
    /\ sendCall.out.sleeps = <<>>

----------------------------------------------------------------------------
(* the store as a table keyed by fingerprint *)

\* no stored record carries the fingerprint
Unwritten(st, file_hash) ==
    \A r \in SeqRange(st) : r.file_hash # file_hash

\* the stored fingerprints are pairwise different
DistinctHashes(st) ==
    \A i, j \in 1..Len(st) : st[i].file_hash = st[j].file_hash => i = j

\* the latest insert_file call wrote this record
WrittenBy(call, r) ==
    /\ r.filename = call.filename
    /\ r.file_hash = call.file_hash
    /\ r.email_sent = call.email_sent
    /\ r.telegram_sent = call.telegram_sent

\* C34: a write of a fingerprint that differs from every stored one, the store
\* available and its fingerprints pairwise different, adds one record
\* retrievable with the written filename and flags and leaves the records of
\* the other fingerprints as they were.
C34_DistinctHashesSeparateRecords ==
    (/\ dbCall.op = "insert_file"
     /\ dbCall.db_ok
     /\ DistinctHashes(dbCall.before)
     /\ Unwritten(dbCall.before, dbCall.file_hash))
    => /\ dbCall.ret
       /\ Len(store) = Len(dbCall.before) + 1
       /\ \E r \in Rows : WrittenBy(dbCall, r)
       /\ \A i \in 1..Len(dbCall.before) : store[i] = dbCall.before[i]

\* the record a lookup by fingerprint returns on an available store
Found(st, file_hash) == get_file_by_hash(st, TRUE, file_hash).rows

\* C35: a lookup by a fingerprint that was never written finds nothing, and
\* after a successful write the lookup by the written fingerprint returns the
\* record with the written filename, fingerprint and channel flags.
C35_LookupWriteRoundTrip ==
    /\ \A h \in DbHashes : Unwritten(store, h) => Found(store, h) = <<>>
    /\ (dbCall.op = "insert_file" /\ dbCall.ret)
       => /\ Found(store, dbCall.file_hash) # <<>>
          /\ WrittenBy(dbCall, Found(store, dbCall.file_hash)[1])

\* C36: two files that differ in filename, in content or in both have
\* different fingerprints.
C36_FingerprintInjective ==
    TwoHashes =>
        LET c1 == utilCall.before[1]
            c2 == utilCall
        IN (/\ \/ get_filename(c1.full_path) # get_filename(c2.full_path)
               \/ c1.content # c2.content
            /\ Fingerprinted(c1) /\ Fingerprinted(c2))
           => c1.out # c2.out

\* C37: the record written for a file a scan found to be a dedup miss carries
\* the fingerprint that scan looked up for it, also when the file is written
\* to between the lookup and the processing.
C37_StoredHashIsLookedUpHash ==
    \A n \in Names :
        (/\ Dispatched(cur[n])
         /\ cur[n].lookup = "miss"
         /\ cur[n].write = "ok")
        => /\ cur[n].hash = cur[n].lhash
           /\ \E r \in Rows : r.filename = n /\ r.file_hash = cur[n].lhash

----------------------------------------------------------------------------
(* SpecAlert: one run of the send_alert command of cdr_sync: the two
   command line switches, the environment the .env file gives, and the
   answers of the two services *)

\* str.lower() on the characters the switches are written with
lower_char(c) ==
    CASE c = "T" -> "t"
      [] c = "R" -> "r"
      [] c = "U" -> "u"
      [] c = "E" -> "e"
      [] c = "O" -> "o"
      [] c = "N" -> "n"
      [] OTHER -> c

lower(s) == [i \in DOMAIN s |-> lower_char(s[i])]

RECURSIVE lstrip(_)
lstrip(s) == IF s # <<>> /\ Head(s) = " " THEN lstrip(Tail(s)) ELSE s

RECURSIVE rstrip(_)
rstrip(s) ==
    IF s # <<>> /\ s[Len(s)] = " " THEN rstrip(SubSeq(s, 1, Len(s) - 1)) ELSE s

\* str.strip()
strip(s) == rstrip(lstrip(s))

\* the values is_true takes for a yes
TrueWords ==
    { <<"1">>, <<"t", "r", "u", "e">>, <<"y", "e", "s">>, <<"y">>, <<"o", "n">> }

\* is_true of a string: argparse gives each switch a value, "false" if absent
is_true(value) == lower(strip(value)) \in TrueWords

\* what --telegram and --email may hold; "false" is the default of both
SwitchValues ==
    { <<"f", "a", "l", "s", "e">>, <<"t", "r", "u", "e">>, <<"O", "n", " ">>,
      <<"n", "o">> }

\* what os.getenv(name, "") gives: nothing, blanks, or a value
EnvValues == { <<>>, <<" ">>, <<"x">> }

EnvNames ==
    { "TELEGRAM_BOT_TOKEN", "TELEGRAM_CHAT_ID", "MS_TENANT_ID", "MS_CLIENT_ID",
      "MS_CLIENT_SECRET", "EMAIL_FROM", "EMAIL_TO" }

\* the answers of the chat API: accepted, an HTTP error status, an exception
\* of the request
AlertChatOutcomes == {"ok", "not_ok", "exception"}

\* the answers of the mail service: accepted, the token request failed, the
\* sendMail request failed
AlertMailOutcomes == {"ok", "token_error", "send_error"}

\* send_alert.send_telegram: True when the API accepted, False for an error
\* status and for every exception
alert_send_telegram(api) == api = "ok"

\* send_alert.send_email: True when both requests went through, False for
\* every exception
alert_send_email(api) == api = "ok"

\* a main that gives up at the first channel that failed
send_alert_main_StopsAtFailure(telegram, email, env, chat_api, mail_api) ==
    LET token == strip(env["TELEGRAM_BOT_TOKEN"])
        chat_id == strip(env["TELEGRAM_CHAT_ID"])
        chat_sent == /\ is_true(telegram)
                     /\ token # <<>> /\ chat_id # <<>>
        chat_ok == ~is_true(telegram) \/ (chat_sent /\ alert_send_telegram(chat_api))
        mail_sent == /\ chat_ok
                     /\ is_true(email)
                     /\ strip(env["MS_TENANT_ID"]) # <<>>
                     /\ strip(env["MS_CLIENT_ID"]) # <<>>
                     /\ strip(env["MS_CLIENT_SECRET"]) # <<>>
                     /\ strip(env["EMAIL_FROM"]) # <<>>
                     /\ strip(env["EMAIL_TO"]) # <<>>
        mail_ok == ~is_true(email) \/ (mail_sent /\ alert_send_email(mail_api))
    IN [code |-> IF chat_ok /\ mail_ok THEN 0 ELSE 1,
        chat_sent |-> chat_sent, mail_sent |-> mail_sent]

\* main: success starts True; each requested channel, Telegram first, turns
\* it False when a credential is empty or its send returns False; the exit
\* code is 0 if success else 1
send_alert_main(telegram, email, env, chat_api, mail_api) ==
    LET token == strip(env["TELEGRAM_BOT_TOKEN"])
        chat_id == strip(env["TELEGRAM_CHAT_ID"])
        chat_sent == /\ is_true(telegram)
                     /\ ~(token = <<>> \/ chat_id = <<>>)
        chat_ok == IF ~is_true(telegram) THEN TRUE
                   ELSE IF token = <<>> \/ chat_id = <<>> THEN FALSE
                   ELSE alert_send_telegram(chat_api)
        tenant_id == strip(env["MS_TENANT_ID"])
        client_id == strip(env["MS_CLIENT_ID"])
        client_secret == strip(env["MS_CLIENT_SECRET"])
        email_from == strip(env["EMAIL_FROM"])
        email_to == strip(env["EMAIL_TO"])
        no_creds == tenant_id = <<>> \/ client_id = <<>> \/ client_secret = <<>>
        no_addr == email_from = <<>> \/ email_to = <<>>
        mail_sent == is_true(email) /\ ~no_creds /\ ~no_addr
        mail_ok == IF ~is_true(email) THEN TRUE
                   ELSE IF no_creds THEN FALSE
                   ELSE IF no_addr THEN FALSE
                   ELSE alert_send_email(mail_api)
    IN [code |-> IF chat_ok /\ mail_ok THEN 0 ELSE 1,
        chat_sent |-> chat_sent, mail_sent |-> mail_sent]

InitAlert ==
    /\ folder = [n \in Names |-> Missing]
    /\ store = <<>>
    /\ EMAIL_SEND = FALSE
    /\ TELEGRAM_SEND = FALSE
    /\ Quiet

\* one run of the command
SendAlert ==
    /\ alertCall = NoCall
    /\ \E telegram \in SwitchValues, email \in SwitchValues,
          env \in [EnvNames -> EnvValues],
          chat_api \in AlertChatOutcomes, mail_api \in AlertMailOutcomes :
          LET r == send_alert_main(telegram, email, env, chat_api, mail_api)
          IN alertCall' = [op |-> "send_alert", telegram |-> telegram,
                           email |-> email, env |-> env,
                           chat_api |-> chat_api, mail_api |-> mail_api,
                           code |-> r.code, chat_sent |-> r.chat_sent,
                           mail_sent |-> r.mail_sent]
    /\ UNCHANGED <<folder, store, EMAIL_SEND, TELEGRAM_SEND, pc, new_files, cur,
                   prev, touchedCur, touchedPrev, lastSend, scans, writes,
                   sendCall, dbCall, utilCall, settings>>

NextAlert == SendAlert

SpecAlert == InitAlert /\ [][NextAlert]_vars

\* the switch asks for the channel
Requested(switch) ==
    switch \in { <<"t", "r", "u", "e">>, <<"O", "n", " ">> }

\* the environment gives every variable of `names` a value that is not blank
AllSet(env, names) == \A v \in names : env[v] \notin { <<>>, <<" ">> }

ChatCreds == {"TELEGRAM_BOT_TOKEN", "TELEGRAM_CHAT_ID"}

MailCreds == EnvNames \ ChatCreds

\* C39: the exit code is 0 exactly when every requested channel had all its
\* credentials and its send succeeded; a requested channel with all its
\* credentials is sent to whatever became of the other channel; a channel
\* that is not requested or lacks a credential is not sent to.
C39_ExitCodeOfAlert ==
    alertCall.op = "send_alert" =>
        LET c == alertCall
            chat_good == AllSet(c.env, ChatCreds) /\ c.chat_api = "ok"
            mail_good == AllSet(c.env, MailCreds) /\ c.mail_api = "ok"
        IN /\ c.code \in {0, 1}
           /\ c.code = 0 <=> /\ Requested(c.telegram) => chat_good
                             /\ Requested(c.email) => mail_good
           /\ c.chat_sent <=> Requested(c.telegram) /\ AllSet(c.env, ChatCreds)
           /\ c.mail_sent <=> Requested(c.email) /\ AllSet(c.env, MailCreds)

C39_Witness ==
    /\ alertCall.op = "send_alert"
    /\ Requested(alertCall.telegram) /\ Requested(alertCall.email)
    /\ AllSet(alertCall.env, EnvNames)
    /\ alertCall.chat_api = "exception"
    /\ alertCall.mail_api = "ok"
    /\ alertCall.chat_sent /\ alertCall.mail_sent
    /\ alertCall.code = 1

====
